---- MODULE Spec2Model ----
(***************************************************************************)
(* Model of lesson12-async.py: the asynchronous menu pipeline.  main()     *)
(* checks the watch folder, initialises the CSV, runs process_image for    *)
(* every existing image with asyncio.gather, starts a watchdog observer    *)
(* whose handler runs asyncio.run(process_image(..)) in the observer       *)
(* thread, and sleeps until it is interrupted.                             *)
(*                                                                         *)
(* Text (file names, dish names) is a sequence of one-character strings,   *)
(* so that suffix extraction, strip() and lower() are computed.            *)
(***************************************************************************)
EXTENDS Naturals, Integers, Sequences, FiniteSets, TLC

\* ------------------------------------------------------------------ bounds
\* Largest value the wall clock read by append_to_csv takes.
MaxClock == 1
\* Number of entries created in the watch folder while the program runs.
MaxCreated == 2
\* Number of image files one run meets, at startup or created later.
MaxImages == 2
\* Largest number of rows the CSV file holds when append_to_csv is called on
\* its own.
MaxRows == 4
\* Longest item list given to the deduplication.
MaxLen == 3

\* ------------------------------------------------------------ text helpers
Whitespace == {" ", "\t", "\n"}

UpperChars == <<"A", "B", "D", "E", "F", "G", "I", "J", "L", "N", "O", "P", "S", "W">>
LowerChars == <<"a", "b", "d", "e", "f", "g", "i", "j", "l", "n", "o", "p", "s", "w">>

\* str.lower() on one character
LowerChar(c) ==
    IF \E i \in 1..Len(UpperChars) : UpperChars[i] = c
    THEN LowerChars[CHOOSE i \in 1..Len(UpperChars) : UpperChars[i] = c]
    ELSE c

\* str.lower()
Lower(s) == [i \in 1..Len(s) |-> LowerChar(s[i])]

RECURSIVE LStrip(_)
LStrip(s) ==
    IF s = <<>> THEN <<>>
    ELSE IF Head(s) \in Whitespace THEN LStrip(Tail(s)) ELSE s

RECURSIVE RStrip(_)
RStrip(s) ==
    IF s = <<>> THEN <<>>
    ELSE IF s[Len(s)] \in Whitespace THEN RStrip(SubSeq(s, 1, Len(s) - 1)) ELSE s

\* str.strip()
Strip(s) == RStrip(LStrip(s))

\* str.rfind('.') as a 1-based position, 0 when there is no dot
RFindDot(s) ==
    IF \E i \in 1..Len(s) : s[i] = "."
    THEN CHOOSE i \in 1..Len(s) : s[i] = "." /\ \A j \in (i+1)..Len(s) : s[j] # "."
    ELSE 0

\* Path.suffix: the last dot and what follows it, empty when the name has no
\* dot, starts with its only dot or ends with a dot
Suffix(name) ==
    LET i == RFindDot(name)
    IN  IF 1 < i /\ i < Len(name) THEN SubSeq(name, i, Len(name)) ELSE <<>>

\* ---------------------------------------------------------- configuration
IMAGE_EXTENSIONS ==
    { <<".", "p", "n", "g">>, <<".", "j", "p", "g">>, <<".", "j", "p", "e", "g">>,
      <<".", "g", "i", "f">>, <<".", "w", "e", "b", "p">> }

media_types ==
    [ s \in IMAGE_EXTENSIONS |->
        CASE s = <<".", "p", "n", "g">> -> "image/png"
          [] s = <<".", "j", "p", "g">> -> "image/jpeg"
          [] s = <<".", "j", "p", "e", "g">> -> "image/jpeg"
          [] s = <<".", "g", "i", "f">> -> "image/gif"
          [] s = <<".", "w", "e", "b", "p">> -> "image/webp" ]

\* get_media_type without lower(): the suffix is looked up as written
get_media_type_CaseSensitive(filepath) ==
    LET suffix == Suffix(filepath)
    IN  IF suffix \in DOMAIN media_types THEN media_types[suffix] ELSE "image/jpeg"

\* lines 111-121: media_types.get(suffix, 'image/jpeg') with the lower-cased suffix
get_media_type(filepath) ==
    LET suffix == Lower(Suffix(filepath))
    IN  IF suffix \in DOMAIN media_types THEN media_types[suffix] ELSE "image/jpeg"

\* line 176 / 239 / 255: suffix.lower() in IMAGE_EXTENSIONS
IsImage(name) == Lower(Suffix(name)) \in IMAGE_EXTENSIONS

\* ------------------------------------------------- entries of the folder
A_png == <<"a", ".", "p", "n", "g">>
B_JPG == <<"b", ".", "J", "P", "G">>
N_txt == <<"n", ".", "t", "x", "t">>
D_gif == <<"d", ".", "g", "i", "f">>

\* names that can appear in the watch folder; D_gif names a directory
Names == {A_png, B_JPG, N_txt, D_gif}
IsDir(name) == name = D_gif

\* contents the watch folder can have when the program starts
InitialListings == { {}, {A_png, B_JPG}, {A_png, N_txt, D_gif} }

\* ------------------------------------------------------------- data model
\* an Optional value is a sequence of length at most one
None == <<>>
Some(v) == <<v>>

Soup  == [dish_name |-> <<"S", "o">>,      price |-> 5, category |-> "Lunch",
          dietary_tags |-> <<>>]
soup_ == [dish_name |-> <<"s", "o", " ">>, price |-> 6, category |-> "Lunch",
          dietary_tags |-> <<"V", "GF">>]
Salad == [dish_name |-> <<" ", "S", "A">>, price |-> 4, category |-> "Lunch",
          dietary_tags |-> <<"V">>]

salad_ == [dish_name |-> <<"s", "a">>, price |-> 4, category |-> "Starter",
           dietary_tags |-> <<>>]

\* MenuExtraction values the extraction agent returns
ExtractionOutputs ==
    { [restaurant_name |-> "Cafe X", items |-> <<Soup, soup_, Salad>>],
      [restaurant_name |-> "Unknown Restaurant", items |-> <<>>] }

\* RestaurantEnrichment values the enrichment agent returns
EnrichmentOutputs ==
    { [google_rating |-> None, address |-> "Unknown", cuisine_type |-> "Unknown"],
      [google_rating |-> Some(0), address |-> "Keskustori 1", cuisine_type |-> "Cafe"],
      [google_rating |-> Some(4), address |-> "Hameenkatu 1", cuisine_type |-> "Cafe"] }

NoExtraction == [restaurant_name |-> "", items |-> <<>>]
NoEnriched ==
    [restaurant_name |-> "", cuisine_type |-> "", google_rating |-> None,
     address |-> "", items |-> <<>>]

\* lines 211-217: the EnrichedMenuExtraction of one image
EnrichedMenuExtraction(restaurant_name, enrichment, items) ==
    [restaurant_name |-> restaurant_name, cuisine_type |-> enrichment.cuisine_type,
     google_rating |-> enrichment.google_rating, address |-> enrichment.address,
     items |-> items]

\* the key without lower(): "So" and "so " are kept as two dishes
item_key_NoLower(item) == Strip(item.dish_name)

\* line 200: item.dish_name.strip().lower()
item_key(item) == Lower(Strip(item.dish_name))

\* unique_items[key] = item without the `not in` test: an entry keeps its
\* place in the dict and takes the later item
RECURSIVE unique_items_Overwrite(_, _, _)
unique_items_Overwrite(items, i, acc) ==
    IF i > Len(items) THEN acc
    ELSE IF \E k \in 1..Len(acc) : item_key(acc[k]) = item_key(items[i])
         THEN unique_items_Overwrite(items, i + 1,
                [k \in 1..Len(acc) |->
                   IF item_key(acc[k]) = item_key(items[i]) THEN items[i] ELSE acc[k]])
         ELSE unique_items_Overwrite(items, i + 1, Append(acc, items[i]))

\* lines 198-204: the dict keeps the first item of every key, in insertion order
RECURSIVE unique_items(_, _, _)
unique_items(items, i, acc) ==
    IF i > Len(items) THEN acc
    ELSE IF \E k \in 1..Len(acc) : item_key(acc[k]) = item_key(items[i])
         THEN unique_items(items, i + 1, acc)
         ELSE unique_items(items, i + 1, Append(acc, items[i]))

\* the values of the dict listed last-inserted first
deduplicated_items_Reversed(items) ==
    LET values == unique_items(items, 1, <<>>)
    IN  [k \in 1..Len(values) |-> values[Len(values) + 1 - k]]

\* lines 197-204: list(unique_items.values())
deduplicated_items(items) == unique_items(items, 1, <<>>)

\* ------------------------------------------------------------------ store
Header == <<"timestamp", "source_image", "restaurant_name", "dish_name", "price",
            "category", "dietary_tags", "cuisine_type", "google_rating", "address">>

\* ';'.join(item.dietary_tags) if item.dietary_tags else ''
RECURSIVE JoinTags(_)
JoinTags(tags) ==
    IF tags = <<>> THEN <<>>
    ELSE IF Len(tags) = 1 THEN <<tags[1]>>
    ELSE <<tags[1], ";">> \o JoinTags(Tail(tags))

\* extraction.google_rating or '': None and 0.0 are both falsy, and give the
\* empty cell
RatingCell(r) == IF r = None THEN <<>> ELSE IF r[1] = 0 THEN <<>> ELSE r

\* lines 140-151: the cells of the row written for one item
Row(timestamp, source_image, extraction, item) ==
    <<timestamp, source_image, extraction.restaurant_name, item.dish_name,
      item.price, item.category, JoinTags(item.dietary_tags),
      extraction.cuisine_type, RatingCell(extraction.google_rating),
      extraction.address>>

\* ------------------------------------------------------------------ state
VARIABLES
    mainpc,       \* position of main()
    alive,        \* the Python process is running
    interrupted,  \* where main() was when the operator interrupt arrived
    dirExists,    \* WATCH_FOLDER.exists()
    files,        \* names present in the watch folder
    created,      \* names created in the folder during this run
    csvExists,    \* CSV_OUTPUT.exists()
    store,        \* rows of the CSV file, in file order
    openBy,       \* pipelines holding an open handle on the CSV file
    now,          \* datetime.now()
    observer,     \* "none", "running" or "stopped"
    events,       \* creation events queued for the observer thread
    pipe,         \* per process_image call: position and local variables
    call          \* the last call a caller other than main() made of a function

vars == <<mainpc, alive, interrupted, dirExists, files, created, csvExists,
          store, openBy, now, observer, events, pipe, call>>

\* one process_image call per origin and path: the calls gathered by main()
\* and the calls made by ImageHandler.on_created
Origins == {"sweep", "live"}
Inst == Origins \X Names

\* positions of process_image between which the coroutine holds its thread
SyncPcs == {"dedup", "append"}
InFlightPcs == {"sleep", "extracting", "dedup", "enriching", "append"}
TerminalPcs == {"persisted", "failed"}

IdlePipe ==
    [pc |-> "idle", extraction |-> NoExtraction, items |-> <<>>,
     enriched |-> NoEnriched, timestamp |-> 0, i |-> 0, err |-> "none"]

InFlight(p) == pipe[p].pc \in InFlightPcs

\* the state of the spec's per-image state machine at a position of process_image
Stage(pc) ==
    CASE pc = "sleep" -> "Queued"
      [] pc = "extracting" -> "Extracting"
      [] pc = "dedup" -> "Deduplicating"
      [] pc = "enriching" -> "Enriching"
      [] pc = "append" -> "Enriching"
      [] pc = "persisted" -> "Persisted"
      [] pc = "failed" -> "Failed"
      [] OTHER -> "None"

\* rows carry the cells written to the file and, as history, the call that
\* wrote them
PriorRow ==
    [by |-> <<"prior", A_png>>,
     cells |-> <<0, A_png, "Cafe X", <<"S", "o">>, 5, "Lunch", <<>>, "Cafe", Some(4),
                 "Hameenkatu 1">>]
HeaderRow == [by |-> <<"init", <<>>>>, cells |-> Header]

\* a function called on its own: its name, its arguments and what it returned
NoCall == [fn |-> "none", arg |-> <<>>, ret |-> <<>>]

\* contents the CSV file can have when the program starts
PriorStores == {<<HeaderRow, PriorRow>>}

Init ==
    /\ mainpc = "start"
    /\ alive = TRUE
    /\ interrupted = "no"
    /\ dirExists \in BOOLEAN
    /\ files \in (IF dirExists THEN InitialListings ELSE {{}})
    /\ created = {}
    /\ csvExists \in BOOLEAN
    /\ store \in (IF csvExists THEN PriorStores ELSE {<<>>})
    /\ openBy = {}
    /\ now = 0
    /\ observer = "none"
    /\ events = <<>>
    /\ pipe = [p \in Inst |-> IdlePipe]
    /\ call = NoCall

\* ------------------------------------------------------------------ main()
\* main() without the exists() test of lines 245-246
CheckFolder_NoCheck ==
    /\ alive /\ mainpc = "start"
    /\ mainpc' = "init_csv"
    /\ UNCHANGED <<alive, interrupted, dirExists, files, created, csvExists, store,
                   openBy, now, observer, events, pipe>>
    /\ UNCHANGED call

\* lines 245-246
CheckFolder ==
    /\ alive /\ mainpc = "start"
    /\ mainpc' = IF dirExists THEN "init_csv" ELSE "startup_error"
    /\ alive' = dirExists
    /\ UNCHANGED <<interrupted, dirExists, files, created, csvExists, store, openBy,
                   now, observer, events, pipe>>
    /\ UNCHANGED call

\* initialize_csv without the exists() test: open(.., 'w') truncates the file
initialize_csv_Always ==
    /\ store' = <<HeaderRow>>
    /\ csvExists' = TRUE

\* lines 124-130: open(.., 'w') and the header row, only when the file is absent
initialize_csv ==
    IF ~csvExists
    THEN /\ store' = <<HeaderRow>>
         /\ csvExists' = TRUE
    ELSE UNCHANGED <<store, csvExists>>

\* line 251
InitializeCsv ==
    /\ alive /\ mainpc = "init_csv"
    /\ initialize_csv
    /\ mainpc' = "list"
    /\ UNCHANGED <<alive, interrupted, dirExists, files, created, openBy, now,
                   observer, events, pipe>>
    /\ UNCHANGED call

\* lines 176-183: process_image returns at once for another suffix, otherwise
\* it starts and suspends in asyncio.sleep(0.5)
Started(name) ==
    IF IsImage(name) THEN [IdlePipe EXCEPT !.pc = "sleep"]
    ELSE [IdlePipe EXCEPT !.pc = "skipped"]

\* observer.start() moved before the sweep
ListExisting_ObserverFirst ==
    /\ alive /\ mainpc = "list"
    /\ LET existing_images == {f \in files : IsImage(f)}
       IN  /\ pipe' = [p \in Inst |->
                         IF p[1] = "sweep" /\ p[2] \in existing_images
                         THEN Started(p[2]) ELSE pipe[p]]
           /\ mainpc' = IF existing_images # {} THEN "gather" ELSE "observer"
    /\ observer' = "running"
    /\ UNCHANGED <<alive, interrupted, dirExists, files, created, csvExists, store,
                   openBy, now, events>>
    /\ UNCHANGED call

\* lines 254-258: the list comprehension and the start of the gathered calls
ListExisting ==
    /\ alive /\ mainpc = "list"
    /\ LET existing_images == {f \in files : IsImage(f)}
       IN  /\ pipe' = [p \in Inst |->
                         IF p[1] = "sweep" /\ p[2] \in existing_images
                         THEN Started(p[2]) ELSE pipe[p]]
           /\ mainpc' = IF existing_images # {} THEN "gather" ELSE "observer"
    /\ UNCHANGED <<alive, interrupted, dirExists, files, created, csvExists, store,
                   openBy, now, observer, events>>
    /\ UNCHANGED call

\* gather returns only when every gathered call has succeeded
SweepComplete_AllPersisted ==
    \A n \in Names : pipe[<<"sweep", n>>].pc \in {"idle", "persisted"}

\* the gathered calls started as tasks that main() does not await
SweepComplete_NoAwait == TRUE

\* line 258: gather returns when every gathered call has returned
SweepComplete == \A n \in Names : ~InFlight(<<"sweep", n>>)

GatherDone ==
    /\ alive /\ mainpc = "gather"
    /\ SweepComplete
    /\ mainpc' = "observer"
    /\ UNCHANGED <<alive, interrupted, dirExists, files, created, csvExists, store,
                   openBy, now, observer, events, pipe>>
    /\ UNCHANGED call

\* lines 261-264
ObserverStart ==
    /\ alive /\ mainpc = "observer"
    /\ observer' = "running"
    /\ mainpc' = "watch"
    /\ UNCHANGED <<alive, interrupted, dirExists, files, created, csvExists, store,
                   openBy, now, events, pipe>>
    /\ UNCHANGED call

\* ---------------------------------------------------------- process_image
\* every call in a thread of its own, preempted anywhere
Runnable_Threads(p) == alive

\* A coroutine runs from one await to the next without giving up its thread:
\* no other call of the same event loop moves while one is between awaits.
\* The gathered calls share main()'s loop; on_created runs in the observer
\* thread.
Runnable(p) ==
    /\ alive
    /\ \A q \in Inst : (q # p /\ q[1] = p[1]) => pipe[q].pc \notin SyncPcs

\* the exception of one gathered call cancels the other calls of its loop
Raise_CancelSiblings(p, kind) ==
    pipe' = [q \in Inst |->
               IF q = p \/ (q[1] = p[1] /\ InFlight(q))
               THEN [IdlePipe EXCEPT !.pc = "failed", !.err = kind]
               ELSE pipe[q]]

\* the handler starts the call again instead of returning
Raise_Retry(p, kind) ==
    pipe' = [pipe EXCEPT ![p] = [IdlePipe EXCEPT !.pc = "sleep"]]

\* lines 227-228: the exception is caught and reported, the call returns and
\* its local variables are gone
Raise(p, kind) ==
    pipe' = [pipe EXCEPT ![p] = [IdlePipe EXCEPT !.pc = "failed", !.err = kind]]

\* lines 183-193: after the delay, read the bytes and call the extraction
\* agent.  read_bytes raises for a directory, and for a file that was removed
\* or cannot be read.
ReadAndExtract(p) ==
    /\ Runnable(p) /\ pipe[p].pc = "sleep"
    /\ \/ /\ ~IsDir(p[2])
          /\ pipe' = [pipe EXCEPT ![p].pc = "extracting"]
       \/ Raise(p, "read")
    /\ UNCHANGED <<mainpc, alive, interrupted, dirExists, files, created, csvExists,
                   store, openBy, now, observer, events>>
    /\ UNCHANGED call

\* lines 190-195: the extraction agent returns a MenuExtraction or raises
ExtractionReturns(p) ==
    /\ Runnable(p) /\ pipe[p].pc = "extracting"
    /\ \/ \E out \in ExtractionOutputs :
            pipe' = [pipe EXCEPT ![p].pc = "dedup", ![p].extraction = out]
       \/ Raise(p, "extraction")
    /\ UNCHANGED <<mainpc, alive, interrupted, dirExists, files, created, csvExists,
                   store, openBy, now, observer, events>>
    /\ UNCHANGED call

\* the rows are written before the restaurant is enriched
Deduplicate_PersistFirst(p) ==
    /\ Runnable(p) /\ pipe[p].pc = "dedup"
    /\ LET items == deduplicated_items(pipe[p].extraction.items)
           extraction == [NoEnriched EXCEPT
                            !.restaurant_name = pipe[p].extraction.restaurant_name]
       IN  /\ pipe' = [pipe EXCEPT ![p].pc = "enriching", ![p].items = items]
           /\ store' = store \o [k \in 1..Len(items) |->
                                   [by |-> p, cells |-> Row(now, p[2], extraction, items[k])]]
    /\ UNCHANGED <<mainpc, alive, interrupted, dirExists, files, created, csvExists,
                   openBy, now, observer, events>>
    /\ UNCHANGED call

\* lines 197-208: deduplicate, then call the enrichment agent
Deduplicate(p) ==
    /\ Runnable(p) /\ pipe[p].pc = "dedup"
    /\ pipe' = [pipe EXCEPT ![p].pc = "enriching",
                            ![p].items = deduplicated_items(pipe[p].extraction.items)]
    /\ UNCHANGED <<mainpc, alive, interrupted, dirExists, files, created, csvExists,
                   store, openBy, now, observer, events>>
    /\ UNCHANGED call

\* lines 208-225 and 135-138: the enrichment agent returns or raises; on a
\* result the enriched extraction is built and append_to_csv reads the clock
\* and opens the file for appending, which creates it when it is absent.
\* Successive readings of the clock grow until the clock reaches MaxClock.
EnrichmentReturns(p) ==
    /\ Runnable(p) /\ pipe[p].pc = "enriching"
    /\ \/ /\ \E e \in EnrichmentOutputs, t \in {now} :
               /\ pipe' = [pipe EXCEPT
                            ![p].pc = "append",
                            ![p].enriched = EnrichedMenuExtraction(
                                pipe[p].extraction.restaurant_name, e, pipe[p].items),
                            ![p].timestamp = t, ![p].i = 1]
          /\ now' = (IF now < MaxClock THEN now + 1 ELSE now)
          /\ openBy' = openBy \cup {p}
          /\ csvExists' = TRUE
       \/ /\ Raise(p, "enrichment")
          /\ UNCHANGED <<now, openBy, csvExists>>
    /\ UNCHANGED <<mainpc, alive, interrupted, dirExists, files, created, store,
                   observer, events>>
    /\ UNCHANGED call

\* the rows of the call are taken out of the file when a writerow raises
WriteRow_Rollback(p) ==
    /\ Runnable(p) /\ pipe[p].pc = "append"
    /\ pipe[p].i <= Len(pipe[p].enriched.items)
    /\ \/ /\ store' = Append(store,
                [by |-> p,
                 cells |-> Row(pipe[p].timestamp, p[2], pipe[p].enriched,
                               pipe[p].enriched.items[pipe[p].i])])
          /\ pipe' = [pipe EXCEPT ![p].i = pipe[p].i + 1]
          /\ UNCHANGED openBy
       \/ /\ Raise(p, "persistence")
          /\ openBy' = openBy \ {p}
          /\ store' = SelectSeq(store, LAMBDA r : r.by # p)
    /\ UNCHANGED <<mainpc, alive, interrupted, dirExists, files, created, csvExists,
                   now, observer, events>>
    /\ UNCHANGED call

\* the file opened without a with block: a writerow that raises leaves it open
WriteRow_NoWith(p) ==
    /\ Runnable(p) /\ pipe[p].pc = "append"
    /\ pipe[p].i <= Len(pipe[p].enriched.items)
    /\ \/ /\ store' = Append(store,
                [by |-> p,
                 cells |-> Row(pipe[p].timestamp, p[2], pipe[p].enriched,
                               pipe[p].enriched.items[pipe[p].i])])
          /\ pipe' = [pipe EXCEPT ![p].i = pipe[p].i + 1]
          /\ UNCHANGED openBy
       \/ /\ Raise(p, "persistence")
          /\ UNCHANGED <<openBy, store>>
    /\ UNCHANGED <<mainpc, alive, interrupted, dirExists, files, created, csvExists,
                   now, observer, events>>
    /\ UNCHANGED call

\* lines 139-151: one writerow; when it raises, the with block closes the
\* file and the exception reaches the handler of process_image
WriteRow(p) ==
    /\ Runnable(p) /\ pipe[p].pc = "append"
    /\ pipe[p].i <= Len(pipe[p].enriched.items)
    /\ \/ /\ store' = Append(store,
                [by |-> p,
                 cells |-> Row(pipe[p].timestamp, p[2], pipe[p].enriched,
                               pipe[p].enriched.items[pipe[p].i])])
          /\ pipe' = [pipe EXCEPT ![p].i = pipe[p].i + 1]
          /\ UNCHANGED openBy
       \/ /\ Raise(p, "persistence")
          /\ openBy' = openBy \ {p}
          /\ UNCHANGED store
    /\ UNCHANGED <<mainpc, alive, interrupted, dirExists, files, created, csvExists,
                   now, observer, events>>
    /\ UNCHANGED call

\* lines 137, 153: the loop is over, the with block closes the file and
\* append_to_csv and process_image return; i - 1 rows were written
CloseCsv(p) ==
    /\ Runnable(p) /\ pipe[p].pc = "append"
    /\ pipe[p].i > Len(pipe[p].enriched.items)
    /\ openBy' = openBy \ {p}
    /\ pipe' = [pipe EXCEPT ![p] = [IdlePipe EXCEPT !.pc = "persisted",
                                                    !.i = pipe[p].i]]
    /\ UNCHANGED <<mainpc, alive, interrupted, dirExists, files, created, csvExists,
                   store, now, observer, events>>
    /\ UNCHANGED call

\* ------------------------------------------------------- watch folder, observer
\* An entry appears in the folder while the program runs (a name listed at
\* startup can be removed and created again); each name is created at most
\* once.  The observer queues a creation event only while it is running.
\* image files this run has met: those listed at startup and those created
Images ==
    Cardinality({m \in Names : pipe[<<"sweep", m>>].pc # "idle" /\ ~IsDir(m)})
    + Cardinality({m \in created : IsImage(m) /\ ~IsDir(m)})

CreateEntry(n) ==
    /\ alive /\ mainpc \in {"gather", "observer", "watch"}
    /\ n \notin created /\ Cardinality(created) < MaxCreated
    /\ (IsImage(n) /\ ~IsDir(n)) => Images < MaxImages
    /\ files' = files \cup {n}
    /\ created' = created \cup {n}
    /\ events' = IF observer = "running"
                 THEN Append(events, [src_path |-> n, is_directory |-> IsDir(n)])
                 ELSE events
    /\ UNCHANGED <<mainpc, alive, interrupted, dirExists, csvExists, store, openBy,
                   now, observer, pipe>>
    /\ UNCHANGED call

\* the observer thread is inside on_created until asyncio.run returns
HandlerBusy == \E n \in Names : InFlight(<<"live", n>>)

\* on_created without the is_directory test of lines 234-235
on_created_NoDirTest(event) ==
    IF IsImage(event.src_path)
    THEN pipe' = [pipe EXCEPT ![<<"live", event.src_path>>] = Started(event.src_path)]
    ELSE UNCHANGED pipe

\* lines 234-240: the observer thread takes the next event and calls
\* on_created, which starts process_image in a fresh event loop for a file
\* with an image suffix
on_created(event) ==
    IF event.is_directory THEN UNCHANGED pipe
    ELSE IF IsImage(event.src_path)
         THEN pipe' = [pipe EXCEPT ![<<"live", event.src_path>>] = Started(event.src_path)]
         ELSE UNCHANGED pipe

Dispatch ==
    /\ alive /\ observer = "running"
    /\ ~HandlerBusy
    /\ events # <<>>
    /\ on_created(Head(events))
    /\ events' = Tail(events)
    /\ UNCHANGED <<mainpc, alive, interrupted, dirExists, files, created, csvExists,
                   store, openBy, now, observer>>
    /\ UNCHANGED call

\* ------------------------------------------------------------- interrupt
\* the process exits: every call still in flight is abandoned with its local
\* variables, the open file is closed and the queued events are dropped
Exit ==
    /\ alive' = FALSE
    /\ mainpc' = "killed"
    /\ pipe' = [p \in Inst |->
                  IF InFlight(p) THEN [IdlePipe EXCEPT !.pc = "abandoned"] ELSE pipe[p]]
    /\ openBy' = {}
    /\ events' = <<>>

\* line 258 has no handler: an interrupt while main() awaits the gathered
\* calls ends main() and the process
InterruptSweep ==
    /\ alive /\ mainpc = "gather"
    /\ Exit
    /\ interrupted' = "sweep"
    /\ UNCHANGED <<dirExists, files, created, csvExists, store, now, observer>>
    /\ UNCHANGED call

\* lines 268-273 under asyncio.run (line 280): the interrupt reaches main()
\* at `await asyncio.sleep(1)`.  When KeyboardInterrupt is raised inside the
\* coroutine the handler stops the observer; when the runner cancels the main
\* task instead, CancelledError passes `except KeyboardInterrupt`, main() ends
\* without observer.stop() and the process exits with its daemon observer
\* thread.
InterruptWatch ==
    /\ alive /\ mainpc = "watch"
    /\ interrupted' = "watch"
    /\ \/ /\ observer' = "stopped"
          /\ mainpc' = "join"
          /\ UNCHANGED <<alive, openBy, events, pipe>>
       \/ /\ Exit
          /\ UNCHANGED observer
    /\ UNCHANGED <<dirExists, files, created, csvExists, store, now>>
    /\ UNCHANGED call

\* lines 275-276: join returns when the observer thread has left on_created
Join ==
    /\ alive /\ mainpc = "join"
    /\ ~HandlerBusy
    /\ mainpc' = "done"
    /\ UNCHANGED <<alive, interrupted, dirExists, files, created, csvExists, store,
                   openBy, now, observer, events, pipe>>
    /\ UNCHANGED call

\* ---------------------------------------------------------- specification
Next ==
    \/ CheckFolder
    \/ InitializeCsv
    \/ ListExisting
    \/ GatherDone
    \/ ObserverStart
    \/ \E p \in Inst : ReadAndExtract(p)
    \/ \E p \in Inst : ExtractionReturns(p)
    \/ \E p \in Inst : Deduplicate(p)
    \/ \E p \in Inst : EnrichmentReturns(p)
    \/ \E p \in Inst : WriteRow(p)
    \/ \E p \in Inst : CloseCsv(p)
    \/ \E n \in Names : CreateEntry(n)
    \/ Dispatch
    \/ InterruptSweep
    \/ InterruptWatch
    \/ Join

Spec == Init /\ [][Next]_vars

\* the next step of main(), and of the call p of process_image
MainStep ==
    CheckFolder \/ InitializeCsv \/ ListExisting \/ GatherDone \/ ObserverStart \/ Join
CallStep(p) ==
    \/ ReadAndExtract(p) \/ ExtractionReturns(p) \/ Deduplicate(p)
    \/ EnrichmentReturns(p) \/ WriteRow(p) \/ CloseCsv(p)

\* An event loop runs every coroutine that is ready: main() and each call of
\* process_image take their next step when it stays possible.  The delay of
\* line 183 ends; an agent call that is awaited returns a result or raises;
\* the observer thread delivers a queued event when it is free.  Nothing
\* obliges a file to be created or the operator to interrupt.
Fairness ==
    /\ WF_vars(MainStep)
    /\ WF_vars(Dispatch)
    /\ \A p \in Inst : WF_vars(CallStep(p))

LiveSpec == Init /\ [][Next]_vars /\ Fairness

TypeOK ==
    /\ mainpc \in {"start", "startup_error", "init_csv", "list", "gather", "observer",
                   "watch", "join", "done", "killed"}
    /\ alive \in BOOLEAN
    /\ observer \in {"none", "running", "stopped"}
    /\ files \subseteq Names /\ created \subseteq Names
    /\ openBy \subseteq Inst
    /\ now \in 0..MaxClock
    /\ \A p \in Inst : pipe[p].pc \in {"idle", "skipped", "abandoned"} \cup InFlightPcs \cup TerminalPcs

\* ------------------------------------------- the store functions on their own
\* initialize_csv and append_to_csv called in any order by a caller that, as
\* main() does, calls initialize_csv first.  The file holds at most MaxRows
\* rows.

\* EnrichedMenuExtraction values passed to append_to_csv: no item, one item,
\* and three items of which two name the same dish
StoreExtractions ==
    { EnrichedMenuExtraction("Cafe X", e, items) :
        e \in EnrichmentOutputs, items \in {<<>>, <<Soup>>, <<Soup, soup_, Salad>>} }

\* append_to_csv reading the clock again for every row
append_to_csv_ClockPerRow(source_image, extraction, n) ==
    /\ store' = store \o
          [k \in 1..n |->
             [by |-> <<"call", source_image>>,
              cells |-> Row(now + k - 1, source_image, extraction, extraction.items[k])]]
    /\ csvExists' = TRUE
    /\ now' = (IF now < MaxClock THEN now + 1 ELSE now)

\* lines 133-153, the whole call: the clock is read once, the file is opened
\* for appending (and created when absent) and one row is written per item;
\* n is the number of rows written, all of them when the call returns and
\* fewer when a writerow raises
append_to_csv(source_image, extraction, n) ==
    /\ LET timestamp == now
       IN  store' = store \o
             [k \in 1..n |->
                [by |-> <<"call", source_image>>,
                 cells |-> Row(timestamp, source_image, extraction, extraction.items[k])]]
    /\ csvExists' = TRUE
    /\ now' = (IF now < MaxClock THEN now + 1 ELSE now)

StoreInit ==
    /\ mainpc = "caller"
    /\ alive = TRUE
    /\ interrupted = "no"
    /\ dirExists = TRUE
    /\ files = {}
    /\ created = {}
    /\ csvExists \in BOOLEAN
    /\ store \in (IF csvExists THEN PriorStores ELSE {<<>>})
    /\ openBy = {}
    /\ now = 0
    /\ observer = "none"
    /\ events = <<>>
    /\ pipe = [p \in Inst |-> IdlePipe]
    /\ call = NoCall

CallInitializeCsv ==
    /\ mainpc = "caller"
    /\ initialize_csv
    /\ call' = [fn |-> "initialize_csv", arg |-> <<>>, ret |-> <<>>]
    /\ UNCHANGED <<mainpc, alive, interrupted, dirExists, files, created, openBy,
                   now, observer, events, pipe>>

CallAppendToCsv(source_image, extraction, n) ==
    /\ mainpc = "caller"
    /\ call.fn # "none"
    /\ Len(store) + Len(extraction.items) <= MaxRows
    /\ append_to_csv(source_image, extraction, n)
    /\ call' = [fn |-> "append_to_csv", arg |-> <<source_image, extraction>>,
                ret |-> IF n = Len(extraction.items) THEN <<"returned">>
                        ELSE <<"raised">>]
    /\ UNCHANGED <<mainpc, alive, interrupted, dirExists, files, created, openBy,
                   observer, events, pipe>>

StoreNext ==
    \/ CallInitializeCsv
    \/ \E source_image \in {A_png, B_JPG}, extraction \in StoreExtractions :
          \E n \in 0..Len(extraction.items) :
             CallAppendToCsv(source_image, extraction, n)

StoreSpec == StoreInit /\ [][StoreNext]_vars

\* -------------------------------------------------- the functions on their own
\* get_media_type and the deduplication of process_image applied to an
\* argument chosen at the start.
C_Jpeg == <<"c", ".", "J", "p", "e", "g">>
E_WEBP == <<"e", ".", "W", "E", "B", "P">>
P_PnG == <<"p", ".", "P", "n", "G">>
G_jpg == <<"g", ".", "j", "p", "g">>
F_bmp == <<"f", ".", "b", "m", "p">>
Menu == <<"m", "e", "n", "u">>
DotPng == <<".", "p", "n", "g">>
A_dot == <<"a", ".">>
A_png_gif == <<"a", ".", "p", "n", "g", ".", "g", "i", "f">>

\* file paths given to get_media_type: every supported suffix, in lower, upper
\* and mixed case, other suffixes and names without a suffix
MediaPaths ==
    {A_png, B_JPG, C_Jpeg, D_gif, E_WEBP, P_PnG, G_jpg, N_txt, F_bmp, Menu, DotPng,
     A_dot, A_png_gif, <<>>}

\* item lists given to the deduplication: up to MaxLen items, among them
\* dishes whose names differ only in case and surrounding blanks
Dishes == {Soup, soup_, Salad, salad_}
ItemLists == UNION { [1..n -> Dishes] : n \in 0..MaxLen }

FunctionInit ==
    /\ mainpc = "caller"
    /\ alive = TRUE
    /\ interrupted = "no"
    /\ dirExists = TRUE
    /\ files = {}
    /\ created = {}
    /\ csvExists = FALSE
    /\ store = <<>>
    /\ openBy = {}
    /\ now = 0
    /\ observer = "none"
    /\ events = <<>>
    /\ pipe = [p \in Inst |-> IdlePipe]
    /\ call \in { [fn |-> "get_media_type", arg |-> filepath, ret |-> <<>>] :
                     filepath \in MediaPaths }
               \cup { [fn |-> "deduplicate", arg |-> items, ret |-> <<>>] :
                        items \in ItemLists }

\* the call returns: ret holds the value returned
CallGetMediaType ==
    /\ call.fn = "get_media_type" /\ call.ret = <<>>
    /\ call' = [call EXCEPT !.ret = <<get_media_type(call.arg)>>]
    /\ UNCHANGED <<mainpc, alive, interrupted, dirExists, files, created, csvExists,
                   store, openBy, now, observer, events, pipe>>

CallDeduplicate ==
    /\ call.fn = "deduplicate" /\ call.ret = <<>>
    /\ call' = [call EXCEPT !.ret = <<deduplicated_items(call.arg)>>]
    /\ UNCHANGED <<mainpc, alive, interrupted, dirExists, files, created, csvExists,
                   store, openBy, now, observer, events, pipe>>

FunctionNext == CallGetMediaType \/ CallDeduplicate

FunctionSpec == FunctionInit /\ [][FunctionNext]_vars

\* ================================================================ properties
SweepInst == {"sweep"} \X Names
LiveInst == {"live"} \X Names

\* positions of the rows of the store written by call p
RowsBy(p) == {k \in 1..Len(store) : store[k].by = p}

\* s is a prefix of t, row by row
IsPrefix(s, t) ==
    /\ Len(s) <= Len(t)
    /\ \A k \in 1..Len(s) : s[k].by = t[k].by /\ s[k].cells = t[k].cells

\* ---------------------------------------------------------------- C1
\* C1: while any call of the initial sweep has not returned as Persisted or
\* Failed, the observer has not been started, no creation event is queued or
\* delivered and no live call has started; and no step of a sweep call is
\* taken once the observer runs or a live call has started.
C1_SweepBeforeLive ==
    /\ [](  (\/ observer # "none"
             \/ events # <<>>
             \/ \E p \in LiveInst : pipe[p].pc # "idle")
          => \A p \in SweepInst : pipe[p].pc \in {"idle"} \cup TerminalPcs )
    /\ [][ (\E p \in SweepInst : pipe'[p] # pipe[p])
           => /\ observer = "none" /\ events = <<>>
              /\ \A q \in LiveInst : pipe[q].pc = "idle" ]_vars

\* a live call is in flight after a sweep of at least one call has finished
C1_Witness ==
    /\ \E p \in SweepInst : pipe[p].pc \in TerminalPcs
    /\ \E q \in LiveInst : InFlight(q)

\* ---------------------------------------------------------------- C4
\* C4: every step, initialize_csv on an existing file and every writerow
\* included, leaves the rows the store had in place: the store before the step
\* is a prefix of the store after it.
C4_AppendOnly == [][IsPrefix(store, store')]_vars

\* the file existed at startup with a data row, initialize_csv ran and a call
\* has appended to it
C4_Witness ==
    /\ Len(store) >= 3
    /\ store[2].by[1] = "prior"
    /\ store[3].by[1] \in Origins

\* ---------------------------------------------------------------- C5
\* C5: no two rows written by one append_to_csv call have dish names that are
\* equal after strip() and lower().
C5_UniqueDishPerAppend ==
    \A j, k \in 1..Len(store) :
        (j < k /\ store[j].by[1] \in Origins /\ store[j].by = store[k].by)
        => Lower(Strip(store[j].cells[4])) # Lower(Strip(store[k].cells[4]))

\* one call has written two rows, from an extraction that repeats a dish
C5_Witness ==
    \E j, k \in 1..Len(store) :
        /\ j < k /\ store[j].by[1] \in Origins /\ store[j].by = store[k].by
        /\ \E x \in ExtractionOutputs :
              /\ Len(deduplicated_items(x.items)) < Len(x.items)
              /\ x.restaurant_name = store[j].cells[3]

\* ---------------------------------------------------------------- C8
\* C8: no path has two process_image calls in flight at once (each path gets
\* at most one sweep call and, with one creation event per path, one live
\* call).
C8_OnePipelinePerPath ==
    \A n \in Names : ~(InFlight(<<"sweep", n>>) /\ InFlight(<<"live", n>>))

\* a path swept at startup is created again and its live call is in flight
C8_Witness ==
    \E n \in Names : pipe[<<"sweep", n>>].pc \in TerminalPcs /\ InFlight(<<"live", n>>)

\* ---------------------------------------------------------------- C2
\* main() is past line 258: every gathered call has returned
SweepOver == mainpc \in {"observer", "watch", "join", "done"}

\* the extraction call and the enrichment call of p have both returned a result
CallsSucceeded(p) ==
    pipe[p].pc \in {"append", "persisted"} \/ pipe[p].err = "persistence"

\* C2 as claimed: for distinct calls A and B of one sweep, when the extraction
\* of A failed and both external calls of B succeeded, B is Persisted once the
\* sweep is over, with the rows it wrote in the store.
C2_Claim ==
    \A a, b \in SweepInst :
        (a # b /\ SweepOver /\ pipe[a].err = "extraction" /\ CallsSucceeded(b))
        => /\ pipe[b].pc = "persisted"
           /\ Cardinality(RowsBy(b)) = pipe[b].i - 1

\* C2 amended: for distinct calls A and B of one sweep, when the extraction of
\* A failed, both external calls of B succeeded and no row write of B raised,
\* B is Persisted once the sweep is over, with the rows it wrote in the store;
\* and the step in which the extraction of A fails changes no other call, nor
\* the store, nor main().
C2_FailureIsolated ==
    /\ [](\A a, b \in SweepInst :
            (a # b /\ SweepOver /\ pipe[a].err = "extraction" /\ CallsSucceeded(b)
             /\ pipe[b].err # "persistence")
            => /\ pipe[b].pc = "persisted"
               /\ Cardinality(RowsBy(b)) = pipe[b].i - 1)
    /\ [][ \A a \in SweepInst :
             (pipe[a].err # "extraction" /\ pipe'[a].err = "extraction")
             => /\ \A b \in Inst \ {a} : pipe'[b] = pipe[b]
                /\ store' = store /\ openBy' = openBy
                /\ mainpc' = mainpc /\ alive' = alive ]_vars

\* the extraction of one sweep call failed and another call of the same sweep
\* is Persisted with a row in the store
C2_Witness ==
    \E a, b \in SweepInst :
        /\ a # b /\ SweepOver
        /\ pipe[a].err = "extraction"
        /\ pipe[b].pc = "persisted" /\ RowsBy(b) # {}

\* ---------------------------------------------------------------- C3
\* C3: a call whose enrichment raised has written no row and holds no handle
\* on the store, and only a call whose enrichment returned a result (or a call
\* abandoned at process exit after that) has rows in the store or the file
\* open.
C3_NoRowsWithoutEnrichment ==
    \A p \in Inst :
        /\ pipe[p].err = "enrichment" => (RowsBy(p) = {} /\ p \notin openBy)
        /\ (RowsBy(p) # {} \/ p \in openBy)
           => (CallsSucceeded(p) \/ pipe[p].pc = "abandoned")

\* the enrichment of a call has failed after its extraction succeeded, while
\* another call has rows in the store
C3_Witness ==
    \E p, q \in Inst : pipe[p].err = "enrichment" /\ RowsBy(q) # {}

\* ---------------------------------------------------------------- C6
StageOf(p) == Stage(pipe[p].pc)

\* the transitions of the state machine as claimed
ClaimedTransitions ==
    { <<"None", "Queued">>, <<"Queued", "Extracting">>,
      <<"Extracting", "Deduplicating">>, <<"Deduplicating", "Enriching">>,
      <<"Enriching", "Persisted">>, <<"Extracting", "Failed">>,
      <<"Enriching", "Failed">> }

\* read_bytes (line 186) runs after the delay and before the extraction
\* call: its failure is counted with the extraction stage
ReadFailure == {<<"Queued", "Failed">>}

\* C6 as claimed: the stage of a call changes only along Queued, Extracting,
\* Deduplicating, Enriching, Persisted; Persisted and Failed are terminal;
\* Failed is entered only from Extracting or from Enriching before
\* append_to_csv has been called.  (A call abandoned at process exit takes no
\* transition.)
C6_Claim ==
    [][ \A p \in Inst :
          (pipe'[p].pc # "abandoned" /\ Stage(pipe'[p].pc) # StageOf(p))
          => /\ <<StageOf(p), Stage(pipe'[p].pc)>> \in ClaimedTransitions \cup ReadFailure
             /\ pipe'[p].pc = "failed"
                  => pipe[p].pc \in {"sleep", "extracting", "enriching"} ]_vars

\* C6 amended: the stage of a call changes only along Queued, Extracting,
\* Deduplicating, Enriching, Persisted; Persisted and Failed are terminal;
\* Failed is entered only from Extracting (the read of the image bytes
\* included) or from Enriching, there either when the enrichment call raises
\* or when a row write of append_to_csv raises, after persistence has begun
\* and the rows before it were written; never from Deduplicating.
C6_StageOrder ==
    [][ \A p \in Inst :
          (pipe'[p].pc # "abandoned" /\ Stage(pipe'[p].pc) # StageOf(p))
          => /\ <<StageOf(p), Stage(pipe'[p].pc)>>
                  \in ClaimedTransitions \cup ReadFailure
             /\ pipe'[p].pc = "failed"
                  => pipe[p].pc \in {"sleep", "extracting", "enriching", "append"} ]_vars

\* a call is Failed after it wrote a row
C6_Witness ==
    \E p \in Inst : pipe[p].pc = "failed" /\ pipe[p].err = "persistence" /\ RowsBy(p) # {}

\* ---------------------------------------------------------------- C7
\* C7 as claimed: while the observer runs, a queued creation event is
\* dispatched without waiting for the live call of an earlier event to return.
C7_Claim ==
    (alive /\ observer = "running" /\ events # <<>>) => ENABLED Dispatch

\* ---------------------------------------------------------------- C9
\* C9: once a call has failed, the process still runs unless the operator
\* interrupted it, main() can still leave the gather when the other sweep
\* calls have returned and start the observer, the observer thread is free
\* again, and a queued event is still dispatched and the call started for it
\* can still take its steps.
C9_FailureDoesNotPropagate ==
    (\E p \in Inst : pipe[p].pc = "failed")
    => /\ alive \/ interrupted # "no"
       /\ (alive /\ mainpc = "gather" /\ \A q \in SweepInst : ~InFlight(q))
            => ENABLED GatherDone
       /\ (alive /\ mainpc = "observer") => ENABLED ObserverStart
       /\ (alive /\ mainpc = "watch") => observer = "running"
       /\ (alive /\ observer = "running" /\ events # <<>>
             /\ \A q \in LiveInst : ~InFlight(q)) => ENABLED Dispatch
       /\ \A q \in Inst :
            (alive /\ pipe[q].pc \in {"sleep", "extracting", "enriching"}
               /\ \A r \in Inst : (r # q /\ r[1] = q[1]) => pipe[r].pc \notin SyncPcs)
            => ENABLED (ReadAndExtract(q) \/ ExtractionReturns(q) \/ EnrichmentReturns(q))

\* a sweep call failed and a live call, started later, is Persisted
C9_Witness ==
    /\ \E p \in SweepInst : pipe[p].pc = "failed"
    /\ \E q \in LiveInst : pipe[q].pc = "persisted"
    /\ mainpc = "watch"

\* ---------------------------------------------------------------- C10
\* C10 as claimed: after an interrupt during the live-watch wait the observer
\* is stopped, main() has left the watch loop for observer.join() or has
\* returned, no live call starts any more, and no call in flight was ended by
\* the interrupt.
C10_Claim ==
    interrupted = "watch"
    => /\ observer = "stopped"
       /\ mainpc \in {"join", "done"}
       /\ ~ENABLED Dispatch
       /\ \A p \in Inst : pipe[p].pc # "abandoned"

\* ---------------------------------------------------------------- C11
\* C11: when the watch folder does not exist at startup, main() ends with the
\* startup error as its only step: the CSV file is neither created nor
\* written, no process_image call starts (so no file is read and no agent is
\* called), no event is queued and the observer is never started.
C11_StartupErrorFirst ==
    /\ [](~dirExists
          => /\ mainpc \in {"start", "startup_error"}
             /\ mainpc = "startup_error" => ~alive
             /\ observer = "none" /\ events = <<>> /\ openBy = {}
             /\ \A p \in Inst : pipe[p].pc = "idle"
             /\ ~ENABLED (InitializeCsv \/ ListExisting \/ ObserverStart))
    /\ [][ ~dirExists
           => /\ mainpc' = "startup_error"
              /\ csvExists' = csvExists /\ store' = store ]_vars

\* main() has failed with the startup error and there is no CSV file
C11_Witness ==
    ~dirExists /\ mainpc = "startup_error" /\ ~alive /\ ~csvExists /\ store = <<>>

\* ---------------------------------------------------------------- C12
\* C12: the rows appended by the calls of this process, sweep calls and live
\* calls alike, carry timestamps that never decrease in file order.
C12_TimestampsNonDecreasing ==
    \A j, k \in 1..Len(store) :
        (j < k /\ store[j].by[1] \in Origins /\ store[k].by[1] \in Origins)
        => store[j].cells[1] <= store[k].cells[1]

\* two calls that were in flight together have written rows with different
\* timestamps
C12_Witness ==
    \E j, k \in 1..Len(store) :
        /\ j < k
        /\ store[j].by[1] = "sweep" /\ store[k].by[1] = "sweep"
        /\ store[j].by # store[k].by
        /\ store[j].cells[1] < store[k].cells[1]

\* ---------------------------------------------------------------- C13
\* the pipeline work of a call: the image bytes were read (and the extraction
\* agent called), or a row was written, or the store is open
Worked(p) ==
    \/ pipe[p].pc \in {"extracting", "dedup", "enriching", "append", "persisted"}
    \/ pipe[p].err \in {"extraction", "enrichment", "persistence"}
    \/ RowsBy(p) # {}
    \/ p \in openBy

\* C13: no call is started, in the sweep or by a creation event, for a file
\* whose lower-cased suffix is not a supported one, and none by the creation
\* event of a directory; for a directory no bytes are read, no agent is called
\* and no row is written; and a file with a supported suffix in any letter
\* case gets its call, from the sweep when it is listed and from on_created
\* when its event is dispatched.
C13_OnlyImagesProcessed ==
    /\ [](\A n \in Names :
            /\ ~IsImage(n)
                 => \A o \in Origins : pipe[<<o, n>>].pc = "idle" /\ ~Worked(<<o, n>>)
            /\ IsDir(n)
                 => /\ pipe[<<"live", n>>].pc = "idle"
                    /\ \A o \in Origins : ~Worked(<<o, n>>))
    /\ [][ /\ ListExisting
              => \A n \in files :
                    (IsImage(n) /\ ~IsDir(n)) => pipe'[<<"sweep", n>>].pc = "sleep"
           /\ Dispatch
              => LET e == Head(events)
                 IN  IF ~e.is_directory /\ IsImage(e.src_path)
                     THEN pipe'[<<"live", e.src_path>>].pc = "sleep"
                     ELSE pipe' = pipe ]_vars

\* the creation events of a directory with an image suffix and of a text file
\* were dispatched, and the call for b.JPG has read its bytes
C13_Witness ==
    /\ {N_txt, D_gif} \subseteq created /\ events = <<>> /\ observer = "running"
    /\ \E o \in Origins : Worked(<<o, B_JPG>>)

\* ---------------------------------------------------------------- C14
\* the rows of the store written by initialize_csv
HeaderRows == {k \in 1..Len(store) : store[k].by[1] = "init"}

\* C14: once initialize_csv has been called, whatever calls of initialize_csv
\* and append_to_csv follow, the file exists and holds exactly one header
\* row, which is its first row; and a call of initialize_csv on an existing
\* file leaves the file as it was.
C14_InitializeIdempotent ==
    /\ [](call.fn # "none"
          => /\ csvExists
             /\ HeaderRows = {1}
             /\ store[1].cells = Header)
    /\ [][ (call'.fn = "initialize_csv" /\ csvExists)
           => (store' = store /\ csvExists' = csvExists) ]_vars

\* initialize_csv created the file, rows were appended and initialize_csv
\* was called again
C14_Witness ==
    /\ call.fn = "initialize_csv"
    /\ Len(store) >= 3
    /\ \A k \in 2..Len(store) : store[k].by[1] = "call"

\* ---------------------------------------------------------------- C15
\* C15: a call of append_to_csv that returns, made with an extraction of N
\* items, leaves the rows of the file in place and adds exactly N rows after
\* them, the k-th for the k-th item, all N with one timestamp, one
\* google_rating cell and the restaurant_name, cuisine_type and address of the
\* extraction.
C15_AppendAddsOneRowPerItem ==
    [][ (call'.fn = "append_to_csv" /\ call'.ret = <<"returned">>)
        => LET source_image == call'.arg[1]
               extraction == call'.arg[2]
               N == Len(extraction.items)
               L == Len(store)
           IN  /\ Len(store') = L + N
               /\ IsPrefix(store, store')
               /\ \A k \in 1..N :
                    LET row == store'[L + k].cells
                        item == extraction.items[k]
                    IN  /\ row[2] = source_image
                        /\ row[4] = item.dish_name
                        /\ row[5] = item.price
                        /\ row[6] = item.category
                        /\ row[1] = store'[L + 1].cells[1]
                        /\ row[9] = store'[L + 1].cells[9]
                        /\ row[3] = extraction.restaurant_name
                        /\ row[8] = extraction.cuisine_type
                        /\ row[10] = extraction.address ]_vars

\* a call with three items has returned and its rows follow the header
C15_Witness ==
    /\ call.fn = "append_to_csv"
    /\ call.ret = <<"returned">>
    /\ Len(call.arg[2].items) = 3
    /\ Len(store) = 4
    /\ store[2].cells[4] = Soup.dish_name /\ store[4].cells[4] = Salad.dish_name

\* ---------------------------------------------------------------- C16
\* C16 as claimed: in the rows a returned call of append_to_csv has written,
\* the google_rating cell is empty exactly when the rating of the extraction
\* is None, and holds the rating when there is one, 0 included.
C16_Claim ==
    (call.fn = "append_to_csv" /\ call.ret = <<"returned">>)
    => LET extraction == call.arg[2]
           N == Len(extraction.items)
       IN  \A k \in (Len(store) - N + 1)..Len(store) :
              /\ store[k].cells[9] = <<>> <=> extraction.google_rating = None
              /\ extraction.google_rating # None
                   => store[k].cells[9] = extraction.google_rating

\* ---------------------------------------------------------------- C17
\* the key of an item: its dish name, trimmed and lower-cased
DishKey(item) == Lower(Strip(item.dish_name))

\* positions of the items of x that are the first with their key
FirstSeen(x) ==
    {i \in 1..Len(x) : \A j \in 1..(i - 1) : DishKey(x[j]) # DishKey(x[i])}

\* the k-th smallest position of a set of positions
Nth(S, k) == CHOOSE i \in S : Cardinality({j \in S : j < i}) = k - 1

\* C17: the deduplication of an item list x returns the items of x at the
\* positions that are first for their trimmed, lower-cased dish name, in the
\* order of x and as they are in x; the result is not longer than x and is
\* empty for the empty list.
C17_DedupKeepsFirst ==
    (call.fn = "deduplicate" /\ call.ret # <<>>)
    => LET x == call.arg
           out == call.ret[1]
       IN  /\ Len(out) = Cardinality(FirstSeen(x))
           /\ \A k \in 1..Len(out) : out[k] = x[Nth(FirstSeen(x), k)]
           /\ Len(out) <= Len(x)
           /\ x = <<>> => out = <<>>

\* the deduplication has returned two dishes for a list of three in which
\* the second dish comes between two items of the first
C17_Witness ==
    /\ call.fn = "deduplicate" /\ call.ret # <<>>
    /\ call.arg = <<Soup, Salad, soup_>>
    /\ call.ret[1] = <<Soup, Salad>>

\* ---------------------------------------------------------------- C18
\* C18: the deduplication applied to a list it has returned returns that
\* list: dedup(dedup(x)) = dedup(x).
C18_DedupIdempotent ==
    (call.fn = "deduplicate" /\ call.ret # <<>>)
    => deduplicated_items(call.ret[1]) = call.ret[1]

\* the deduplication has returned a list shorter than its argument, with
\* more than one item
C18_Witness ==
    /\ call.fn = "deduplicate" /\ call.ret # <<>>
    /\ Len(call.ret[1]) = 2 /\ Len(call.arg) = 3
    /\ call.arg[1] = salad_

\* ---------------------------------------------------------------- C19
\* C19: get_media_type returns for every path: image/png for the suffix
\* .png, image/jpeg for .jpg and .jpeg, image/gif for .gif, image/webp for
\* .webp, the suffix taken in any letter case, and image/jpeg for any other
\* suffix and for a path without suffix; the label is never empty.
C19_MediaTypeTotal ==
    /\ (call.fn = "get_media_type" /\ call.ret = <<>>) => ENABLED CallGetMediaType
    /\ (call.fn = "get_media_type" /\ call.ret # <<>>)
       => LET suffix == Lower(Suffix(call.arg))
              label == call.ret[1]
          IN  /\ label # ""
              /\ label = (CASE suffix = <<".", "p", "n", "g">> -> "image/png"
                            [] suffix = <<".", "j", "p", "g">> -> "image/jpeg"
                            [] suffix = <<".", "j", "p", "e", "g">> -> "image/jpeg"
                            [] suffix = <<".", "g", "i", "f">> -> "image/gif"
                            [] suffix = <<".", "w", "e", "b", "p">> -> "image/webp"
                            [] OTHER -> "image/jpeg")

\* get_media_type has returned image/webp for the path e.WEBP
C19_Witness ==
    /\ call.fn = "get_media_type" /\ call.ret = <<"image/webp">>
    /\ call.arg = E_WEBP

\* ---------------------------------------------------------------- C20
\* the step issues the extraction call (line 190) or the enrichment call
\* (line 208) of p
IssuesExtraction(p) == pipe[p].pc # "extracting" /\ pipe'[p].pc = "extracting"
IssuesEnrichment(p) == pipe[p].pc # "enriching" /\ pipe'[p].pc = "enriching"

\* C20: a call of process_image issues its extraction call only from its
\* start, which it never reaches again, so at most once and never again after
\* a failure; it issues its enrichment call only when its own extraction has
\* just returned a result, and then always, whatever restaurant name the
\* extraction holds and whatever the other calls enriched: one enrichment
\* call for every call whose extraction succeeded.
C20_OneCallEach ==
    /\ [][ \A p \in Inst :
            /\ IssuesExtraction(p) => pipe[p].pc = "sleep"
            /\ (pipe'[p].pc = "sleep" /\ pipe[p].pc # "sleep") => pipe[p].pc = "idle"
            /\ pipe[p].pc # "idle" => pipe'[p].pc # "idle"
            /\ IssuesEnrichment(p) => pipe[p].pc = "dedup"
            /\ (pipe'[p].pc = "dedup" /\ pipe[p].pc # "dedup")
                 => pipe[p].pc = "extracting"
            /\ (pipe[p].pc = "dedup" /\ pipe'[p].pc \notin {"dedup", "abandoned"})
                 => IssuesEnrichment(p)
            /\ (pipe'[p].pc = "append" /\ pipe[p].pc # "append")
                 => pipe[p].pc = "enriching" ]_vars
    /\ [](\A p \in Inst : (alive /\ pipe[p].pc = "dedup") => ENABLED Deduplicate(p))

\* two calls of one sweep hold extractions with the same restaurant name and
\* both have their enrichment call in flight
C20_Witness ==
    \E p, q \in SweepInst :
        /\ p # q
        /\ pipe[p].pc = "enriching" /\ pipe[q].pc = "enriching"
        /\ pipe[p].extraction.restaurant_name = pipe[q].extraction.restaurant_name

\* ---------------------------------------------------------------- C21
\* every row written so far by a call that is inside append_to_csv carries
\* the file name of the call's image, the restaurant name of the call's own
\* extraction, the cuisine type and address of the call's own enrichment and
\* the dish fields of one of the call's deduplicated items
OwnDataInRows ==
    \A p \in Inst :
        pipe[p].pc = "append"
        => \A k \in RowsBy(p) :
              LET row == store[k].cells
              IN  /\ row[1] = pipe[p].timestamp
                  /\ row[2] = p[2]
                  /\ row[3] = pipe[p].extraction.restaurant_name
                  /\ row[8] = pipe[p].enriched.cuisine_type
                  /\ row[10] = pipe[p].enriched.address
                  /\ \E j \in 1..Len(pipe[p].items) :
                        LET item == pipe[p].items[j]
                        IN  /\ row[4] = item.dish_name
                            /\ row[5] = item.price
                            /\ row[6] = item.category
                            /\ row[7] = JoinTags(item.dietary_tags)

\* C21 as claimed: under every interleaving, the rows of a call carry its
\* image's file name, its own extraction's restaurant name, its own
\* enrichment's cuisine type, address and google_rating, and the dish fields
\* of one of its deduplicated items.
C21_Claim ==
    /\ OwnDataInRows
    /\ \A p \in Inst :
          pipe[p].pc = "append"
          => \A k \in RowsBy(p) : store[k].cells[9] = pipe[p].enriched.google_rating

\* ---------------------------------------------------------------- C22
\* C22: the calls holding the CSV file open are exactly the calls that are
\* inside append_to_csv; a call that has returned from it, with all its rows
\* written or with the error of a writerow, holds no handle, and neither
\* does main() after initialize_csv.
C22_HandleReleased ==
    openBy = {p \in Inst : pipe[p].pc = "append"}

\* one call has written all its rows and returned, another has failed in a
\* writerow after writing a row, and the file is closed
C22_Witness ==
    /\ \E p \in Inst : pipe[p].pc = "persisted" /\ RowsBy(p) # {}
    /\ \E q \in Inst : pipe[q].err = "persistence" /\ RowsBy(q) # {}
    /\ openBy = {}

\* ---------------------------------------------------------------- C23
\* C23: when the writerow of row k of a call raises, the k - 1 rows the call
\* has written stay in the file with every other row, the call ends Failed
\* with the error reported, and the step changes no other call, nor main(),
\* the observer or its queue; from then on the call takes no step and no row
\* of it is added.
C23_PartialAppendStays ==
    [][ \A p \in Inst :
          /\ (pipe[p].pc = "append" /\ pipe'[p].pc = "failed")
             => /\ pipe'[p].err = "persistence"
                /\ store' = store
                /\ Cardinality(RowsBy(p)) = pipe[p].i - 1
                /\ \A q \in Inst \ {p} : pipe'[q] = pipe[q]
                /\ mainpc' = mainpc /\ alive' = alive
                /\ observer' = observer /\ events' = events
          /\ pipe[p].err = "persistence"
             => /\ pipe'[p] = pipe[p]
                /\ IsPrefix(store, store')
                /\ \A k \in (Len(store) + 1)..Len(store') : store'[k].by # p ]_vars

\* a call failed in a writerow after writing a row, and another call has
\* written its rows after that row and is Persisted
C23_Witness ==
    \E p, q \in Inst :
        /\ pipe[q].err = "persistence" /\ pipe[p].pc = "persisted"
        /\ \E j, k \in 1..Len(store) : j < k /\ store[j].by = q /\ store[k].by = p

\* ---------------------------------------------------------------- C24
\* C24: at most one call has the CSV file open for appending at any time,
\* and the rows written by one call of this process are contiguous in the
\* file: no row of another call lies between two of them.
C24_AppendsDoNotInterleave ==
    /\ Cardinality(openBy) <= 1
    /\ \A j, k, l \in 1..Len(store) :
          (j < k /\ k < l /\ store[j].by[1] \in Origins /\ store[j].by = store[l].by)
          => store[k].by = store[j].by

\* a call is inside append_to_csv with one of its two rows written while
\* another call of the same sweep waits for its enrichment
C24_Witness ==
    \E p, q \in SweepInst :
        /\ p # q
        /\ pipe[p].pc = "append" /\ pipe[p].i = 2 /\ Len(pipe[p].enriched.items) = 2
        /\ Cardinality(RowsBy(p)) = 1
        /\ pipe[q].pc = "enriching"

\* ---------------------------------------------------------------- C25
\* the creation event of n is queued for the observer thread
Queued(n) == \E k \in 1..Len(events) : events[k].src_path = n

\* C25 as claimed: while the program runs uninterrupted, an image file
\* created after the listing of the sweep was taken, during the sweep
\* included, is on its way to exactly one call of process_image: its event
\* is queued, or its live call has started.  (A live call starts only from a
\* queued event and an event is queued only when the file is created, so a
\* created image with neither is never processed.)
C25_Claim ==
    (alive /\ interrupted = "no")
    => \A n \in created :
          (IsImage(n) /\ ~IsDir(n))
          => (Queued(n) \/ pipe[<<"live", n>>].pc # "idle")

\* ---------------------------------------------------------------- C26
\* every call in flight ends Persisted or Failed, and main() reaches the
\* watch loop with the observer running
SweepAndCallsEnd ==
    /\ \A p \in Inst : [](InFlight(p) => <>(pipe[p].pc \in TerminalPcs))
    /\ <>(mainpc = "watch" /\ observer = "running")

\* C26 as claimed: when the watch folder exists and every agent call returns
\* or raises, every started call of process_image ends Persisted or Failed
\* and main() finishes the sweep and enters the watch loop.
C26_Claim == dirExists => SweepAndCallsEnd

\* C26 amended: when the watch folder exists, every agent call returns or
\* raises and the operator does not interrupt the program, every started
\* call of process_image ends Persisted or Failed and main() finishes the
\* sweep and enters the watch loop, whatever calls of the sweep fail.
C26_SweepTerminates ==
    (dirExists /\ [](interrupted = "no")) => SweepAndCallsEnd

\* main() is in the watch loop, uninterrupted, after a sweep in which one
\* call failed and another is Persisted
C26_Witness ==
    /\ mainpc = "watch" /\ observer = "running" /\ interrupted = "no"
    /\ \E p, q \in SweepInst : pipe[p].pc = "failed" /\ pipe[q].pc = "persisted"

====
